---- MODULE Spec2Model ----
(***************************************************************************)
(* A model of inpatient_finder.py: the field normaliser, the per-patient   *)
(* episode grouper, the episode reducer and the occupancy queries.         *)
(*                                                                         *)
(* A table (DataFrame) is a sequence of rows; a row is a record.  The      *)
(* columns the program reads are fields of the row:                        *)
(*   mrn        "Medical Record #"                                         *)
(*   admit      "Admit Date"        (a timestamp, or NaT)                  *)
(*   discharge  "Discharge Date"    (a timestamp, or NaT)                  *)
(*   ptype      "Patient Type"                                             *)
(*   pclass     "Patient Class"                                            *)
(*   pstate     "Patient State"     (a string: a sequence of characters)   *)
(*   la         whether "Patient City", lower-cased, contains              *)
(*              "los angeles" (the row's value of la_mask)                 *)
(*   vid        a pass-through column holding the uploaded row's number    *)
(* and the columns the program adds: group ("Group"), gtype ("Group        *)
(* Type"), gdd ("Group Discharge Date").                                   *)
(*                                                                         *)
(* Timestamps are integers counting ticks, TicksPerDay ticks to a day, so  *)
(* that a timestamp may or may not fall on midnight.                       *)
(***************************************************************************)
EXTENDS Integers, Sequences, FiniteSets, TLC

VARIABLES
    pc,                        \* the position of the run
    state, corrected,          \* correct_patient_state: argument, result
    patient_df, threshold,     \* group_patient_records: arguments
    grouped,                   \* group_patient_records: result
    reduced, regrouped,        \* the reducer applied to grouped, grouped again
    uploaded,                  \* the rows of the uploaded file
    df,                        \* load_data's result
    combined_df, df_result,    \* lines 109-122
    chosen_date, filtered_df,  \* lines 126-137
    la_counts, total_unique_la_patients   \* lines 166-182

gvars == <<patient_df, threshold, grouped, reduced, regrouped>>
svars == <<state, corrected>>
pvars == <<uploaded, df, combined_df, df_result, chosen_date, filtered_df,
           la_counts, total_unique_la_patients>>
vars == <<pc, svars, gvars, pvars>>

(***************************************************************************)
(* Bounds of the model.                                                    *)
(***************************************************************************)
\* the most visits of one patient handed to group_patient_records
MaxVisits == 3
\* the latest day (a day number) of a visit handed to group_patient_records
MaxDate == 1
\* the most rows of an uploaded file
MaxRows == 2
\* the most blanks before and after a "Patient State" value
MaxPad == 2
\* the resolution of a timestamp: ticks per day
TicksPerDay == 2

(***************************************************************************)
(* Timestamps.                                                             *)
(***************************************************************************)
\* pandas' NaT: a missing timestamp (a value no timestamp of the model takes)
NaT == 999999
\* Python's None in group_ids
None == 0

isna(d) == d = NaT

\* midnight of day number n
Day(n) == n * TicksPerDay

\* datetime.timedelta(days=n) and pd.Timedelta(days=n)
timedelta(days) == days * TicksPerDay

\* a <= b on timestamps: False when either is NaT
Le(a, b) == ~isna(a) /\ ~isna(b) /\ a <= b

\* a > b on timestamps: False when either is NaT
Gt(a, b) == ~isna(a) /\ ~isna(b) /\ a > b

\* pd.to_datetime("2050-01-01"), a midnight far after every date of the model
Sentinel2050 == Day(29220)

(***************************************************************************)
(* Sequences.                                                              *)
(***************************************************************************)
RECURSIVE SeqFilter(_, _)
\* boolean indexing df[mask]: the rows whose index is in keep, in order
SeqFilter(s, keep) ==
    IF s = <<>> THEN <<>>
    ELSE LET n == Len(s)
             front == SeqFilter(SubSeq(s, 1, n - 1), keep)
         IN IF n \in keep THEN Append(front, s[n]) ELSE front

Where(df_, P(_)) == SeqFilter(df_, {i \in 1..Len(df_) : P(df_[i])})

RECURSIVE Concat(_)
\* pd.concat(frames, ignore_index=True) of a sequence of frames
Concat(frames) ==
    IF frames = <<>> THEN <<>>
    ELSE Head(frames) \o Concat(Tail(frames))

Range(s) == {s[i] : i \in 1..Len(s)}

\* the sequences over S of length at most n
SeqsUpTo(S, n) == UNION {[1..k -> S] : k \in 0..n}

SetMax(S) == CHOOSE x \in S : \A y \in S : y <= x
SetMin(S) == CHOOSE x \in S : \A y \in S : x <= y

(***************************************************************************)
(* Field normaliser.                                                       *)
(***************************************************************************)
\* lines 11-17: both masks are computed from missing_dd as it was on entry
fill_missing_discharge_dates(df_) ==
    [i \in 1..Len(df_) |->
        LET missing_dd == isna(df_[i].discharge)
            mask_o == missing_dd /\ df_[i].pclass = "O"
            mask_i == missing_dd /\ df_[i].pclass = "I"
        IN IF mask_o THEN [df_[i] EXCEPT !.discharge = df_[i].admit]
           ELSE IF mask_i THEN [df_[i] EXCEPT !.discharge = Sentinel2050]
           ELSE df_[i]]

\* line 25: df.dropna(subset=["Admit Date"])
dropna_admit(df_) == Where(df_, LAMBDA r : ~isna(r.admit))

\* lines 20-27
load_data(file) == fill_missing_discharge_dates(dropna_admit(file))

RECURSIVE lstrip(_)
lstrip(s) == IF s # <<>> /\ Head(s) = " " THEN lstrip(Tail(s)) ELSE s

RECURSIVE rstrip(_)
rstrip(s) ==
    IF s # <<>> /\ s[Len(s)] = " " THEN rstrip(SubSeq(s, 1, Len(s) - 1)) ELSE s

\* str.strip(): the blanks at both ends removed
strip(s) == rstrip(lstrip(s))

\* the strings of the program, as sequences of characters
CA == <<"C", "A">>
GU == <<"G", "U">>
AS == <<"A", "S">>
MP == <<"M", "P">>
NV == <<"N", "V">>
International ==
    <<"I", "n", "t", "e", "r", "n", "a", "t", "i", "o", "n", "a", "l">>
Zug == <<"Z", "u", "g">>
SaoPaulo == <<"S", "a", "o", " ", "P", "a", "u", "l", "o">>
Paris == <<"P", "a", "r", "i", "s">>
Dededo == <<"D", "e", "d", "e", "d", "o">>
Agat == <<"A", "g", "a", "t">>
Yigo == <<"Y", "i", "g", "o">>
Hagatna == <<"H", "a", "g", "a", "t", "n", "a">>
LioLio == <<"L", "i", "o", " ", "L", "i", "o">>
Saipan == <<"S", "a", "i", "p", "a", "n">>

\* lines 32-42
known_invalids_for_CA ==
    (Zug :> International) @@ (SaoPaulo :> International) @@
    (Paris :> International) @@ (Dededo :> GU) @@ (Agat :> GU) @@
    (Yigo :> GU) @@ (Hagatna :> GU) @@ (LioLio :> AS) @@ (Saipan :> MP)

\* dict.get(key, default)
get(dict, key, default) == IF key \in DOMAIN dict THEN dict[key] ELSE default

\* lines 29-43
correct_patient_state(state_) ==
    IF strip(state_) # CA
    THEN state_
    ELSE get(known_invalids_for_CA, strip(state_), CA)

(***************************************************************************)
(* Episode grouper.                                                        *)
(***************************************************************************)
\* line 46: sort_values("Admit Date") uses an unstable sort, so rows of
\* equal Admit Date may come out in any order: every ordering of the frame
\* that is ascending in admit is a possible result.
sort_values(df_) ==
    LET n == Len(df_)
        perms == {p \in [1..n -> 1..n] : \A i, j \in 1..n : i # j => p[i] # p[j]}
    IN {[i \in 1..n |-> df_[p[i]]] : p \in
            {q \in perms : \A i \in 1..n - 1 : df_[q[i]].admit <= df_[q[i + 1]].admit}}

\* line 56 with the threshold subtracted from group_end
JoinsEpisodeSubtract(next_admit, group_end, days_threshold) ==
    ~isna(next_admit) /\ ~isna(group_end)
        /\ next_admit <= group_end - timedelta(days_threshold)
\* line 56 with < for <=
JoinsEpisodeStrict(next_admit, group_end, days_threshold) ==
    ~isna(next_admit) /\ ~isna(group_end)
        /\ next_admit < group_end + timedelta(days_threshold)
\* line 56: next_admit <= group_end + timedelta(days=days_threshold), False
\* when group_end is NaT
JoinsEpisode(next_admit, group_end, days_threshold) ==
    ~isna(next_admit) /\ ~isna(group_end)
        /\ next_admit <= group_end + timedelta(days_threshold)

\* line 57 keeping the discharge of the row just read (the previous row's
\* discharge at the next comparison)
RunningEndPreviousRow(group_end, discharge) == discharge
\* line 57: max(group_end, discharge) is Python's max: the second argument
\* only when it compares greater than the first
RunningEnd(group_end, discharge) ==
    IF Gt(discharge, group_end) THEN discharge ELSE group_end

RECURSIVE InnerWhile(_, _, _, _)
\* lines 54-60, rows numbered from 1: <<j, group_end>> when the loop ends
InnerWhile(sorted_df, j, group_end, days_threshold) ==
    IF j <= Len(sorted_df)
    THEN IF JoinsEpisode(sorted_df[j].admit, group_end, days_threshold)
         THEN InnerWhile(sorted_df, j + 1,
                         RunningEnd(group_end, sorted_df[j].discharge),
                         days_threshold)
         ELSE <<j, group_end>>
    ELSE <<j, group_end>>

RECURSIVE OuterWhile(_, _, _, _, _)
\* lines 50-64, rows numbered from 1: group_ids when the loop ends
OuterWhile(sorted_df, i, group, group_ids, days_threshold) ==
    IF i <= Len(sorted_df)
    THEN LET j == InnerWhile(sorted_df, i + 1, sorted_df[i].discharge,
                             days_threshold)[1]
         IN OuterWhile(sorted_df, j, group + 1,
                       [k \in 1..Len(sorted_df) |->
                           IF i <= k /\ k < j THEN group ELSE group_ids[k]],
                       days_threshold)
    ELSE group_ids

\* lines 47-66, applied to the frame line 46 sorted
group_patient_records(sorted_df, days_threshold) ==
    LET group_ids == OuterWhile(sorted_df, 1, 1,
                                [k \in 1..Len(sorted_df) |-> None],
                                days_threshold)
    IN [k \in 1..Len(sorted_df) |-> [group |-> group_ids[k]] @@ sorted_df[k]]

(***************************************************************************)
(* Branches (lines 78-109).                                                *)
(***************************************************************************)
\* line 78
days_threshold == 20

\* line 81 left out
KeepAllTypes(df_) == df_
\* line 81
filter_telemedicine(df_) == Where(df_, LAMBDA r : r.ptype # "Telemedicine")

\* line 84
apply_correct_patient_state(df_) ==
    [i \in 1..Len(df_) |->
        [df_[i] EXCEPT !.pstate = correct_patient_state(df_[i].pstate)]]

\* lines 87-91
ca_df(df_) == Where(df_, LAMBDA r : r.pstate = CA)
non_ca_df(df_) == Where(df_, LAMBDA r : r.pstate # CA)
ca_inpatients(df_) == Where(ca_df(df_), LAMBDA r : r.ptype = "Inpatient")

\* lines 91, 98-100: numbered 1..n down the frame, whatever the patient
ca_non_inpatients(df_) ==
    LET rows == Where(ca_df(df_), LAMBDA r : r.ptype # "Inpatient")
    IN [i \in 1..Len(rows) |->
           [group |-> i, gtype |-> "CA Single Record (Non-Inpatient)"] @@ rows[i]]

RECURSIVE Ascending(_)
\* the members of a finite set of integers, ascending
Ascending(S) ==
    IF S = {} THEN <<>>
    ELSE <<SetMin(S)>> \o Ascending(S \ {SetMin(S)})

\* frame.groupby("Medical Record #", group_keys=False).apply(
\*     lambda df: group_patient_records(df, days_threshold))
\* on a frame already in the order line 46 gives each patient's rows: the
\* patients in ascending order, each one's rows grouped.  gtype is the
\* "Group Type" set on the result (lines 96, 107).
groupby_apply(sorted_frame, threshold_, gtype) ==
    LET keys == Ascending({r.mrn : r \in Range(sorted_frame)})
        one(m) == group_patient_records(
                      Where(sorted_frame, LAMBDA r : r.mrn = m), threshold_)
        tagged(rows) == [i \in 1..Len(rows) |-> [gtype |-> gtype] @@ rows[i]]
    IN Concat([k \in 1..Len(keys) |-> tagged(one(keys[k]))])

\* lines 93-109: the three branches concatenated.  df_ is the frame after
\* lines 81-84 and sorted_df one of the orders line 46 can give its rows.
concat_branches(df_, sorted_df) ==
    LET grouped_inpatients ==
            groupby_apply(ca_inpatients(sorted_df), days_threshold,
                          "CA Grouped (Inpatient)")
        grouped_ca == grouped_inpatients \o ca_non_inpatients(df_)
        grouped_non_ca ==
            groupby_apply(non_ca_df(sorted_df), days_threshold, "Non-CA Grouped")
    IN grouped_ca \o grouped_non_ca

(***************************************************************************)
(* Episode reducer (lines 110-122).                                        *)
(***************************************************************************)
\* Series.max() over timestamps skips NaT; NaT when nothing is left
max_skipna(S) == IF S \ {NaT} = {} THEN NaT ELSE SetMax(S \ {NaT})

\* lines 110-113: groupby(["Medical Record #", "Group"])["Discharge Date"]
\*                .transform("max")
with_group_discharge_date(frame) ==
    [i \in 1..Len(frame) |->
        [gdd |-> max_skipna({r.discharge : r \in
                    {q \in Range(frame) :
                        q.mrn = frame[i].mrn /\ q.group = frame[i].group}})]
        @@ frame[i]]

RECURSIVE StableSortByAdmit(_)
\* a stable sort by admit (the sort of several keys, line 117, is stable):
\* insertion of the last row after the rows not later than it
StableSortByAdmit(rows) ==
    IF rows = <<>> THEN <<>>
    ELSE LET n == Len(rows)
             front == StableSortByAdmit(SubSeq(rows, 1, n - 1))
             before == Where(front, LAMBDA r : r.admit <= rows[n].admit)
             after == Where(front, LAMBDA r : r.admit > rows[n].admit)
         IN before \o <<rows[n]>> \o after

\* GroupBy.first(): column by column, the first value that is not null
first(rows) ==
    LET known == Where(rows, LAMBDA r : ~isna(r.discharge))
    IN [rows[1] EXCEPT !.discharge =
            IF known = <<>> THEN NaT ELSE known[1].discharge]

\* lines 115-120: one row for each (Medical Record #, Group), in key order
grouped_only(combined) ==
    LET has_group == Where(combined, LAMBDA r : r.group # None)
        mrns == Ascending({r.mrn : r \in Range(has_group)})
        groups(m) == Ascending({r.group : r \in
                         {q \in Range(has_group) : q.mrn = m}})
        members(m, g) ==
            StableSortByAdmit(
                Where(has_group, LAMBDA r : r.mrn = m /\ r.group = g))
        of_patient(m) ==
            [k \in 1..Len(groups(m)) |-> first(members(m, groups(m)[k]))]
    IN Concat([k \in 1..Len(mrns) |-> of_patient(mrns[k])])

\* line 121
not_grouped(combined) == Where(combined, LAMBDA r : r.group = None)

\* line 122
reduce(combined) == grouped_only(combined) \o not_grouped(combined)

(***************************************************************************)
(* Occupancy queries (lines 126-182).                                      *)
(***************************************************************************)
\* lines 130-133
active_on(result, date) ==
    Where(result, LAMBDA r : Le(r.admit, date) /\ Le(date, r.gdd))

\* line 137: drop_duplicates(subset=["Medical Record #"], keep="first")
drop_duplicates(rows) ==
    SeqFilter(rows, {i \in 1..Len(rows) :
                        \A j \in 1..i - 1 : rows[j].mrn # rows[i].mrn})

\* lines 139-150: the columns kept (those of them the model has)
project(rows) ==
    [i \in 1..Len(rows) |->
        [mrn |-> rows[i].mrn, pstate |-> rows[i].pstate, la |-> rows[i].la]]

\* line 167: the days before chosen_date that the window reaches back
window_back == 29

\* line 167: pd.date_range(chosen_date - 29 days, chosen_date), a day apart
date_range(date) ==
    [k \in 1..window_back + 1 |->
        date - timedelta(window_back) + timedelta(k - 1)]

\* lines 171-175: the distinct patients of the la rows active on day
la_patients(result, day) ==
    {r.mrn : r \in {q \in Range(result) :
                        Le(q.admit, day) /\ Le(day, q.gdd) /\ q.la}}

\* lines 178-182 without the 29 days of line 180
WindowPatientsFromChosenDate(result, date) ==
    {r.mrn : r \in {q \in Range(result) :
                        Le(q.admit, date) /\ Le(date, q.gdd) /\ q.la}}
\* lines 178-182: the distinct patients of the la rows overlapping the window
window_patients(result, date) ==
    {r.mrn : r \in {q \in Range(result) :
                        Le(q.admit, date)
                        /\ Le(date - timedelta(window_back), q.gdd) /\ q.la}}

(***************************************************************************)
(* group_patient_records on its own: any visits of one patient, any        *)
(* threshold, then the reducer on its result and the grouper once more.    *)
(***************************************************************************)
Thresholds == {-1, 0, 1}

GroupDates == {Day(d) : d \in 0..MaxDate}

\* a row of the model
Row(mrn, admit, discharge, ptype, pclass, pstate, la) ==
    [mrn |-> mrn, admit |-> admit, discharge |-> discharge, ptype |-> ptype,
     pclass |-> pclass, pstate |-> pstate, la |-> la]

\* the rows of a file, numbered in the pass-through column
Numbered(rows) == [i \in 1..Len(rows) |-> rows[i] @@ [vid |-> i]]

Visits ==
    {Row(1, a, d, "Inpatient", "E", NV, FALSE) :
        a \in GroupDates, d \in GroupDates \cup {NaT}}

Idle == <<>>

InitIdleState == state = Idle /\ corrected = Idle
InitIdleGroup ==
    /\ patient_df = Idle /\ threshold = 0 /\ grouped = Idle
    /\ reduced = Idle /\ regrouped = Idle
InitIdlePipeline ==
    /\ uploaded = Idle /\ df = Idle /\ combined_df = Idle /\ df_result = Idle
    /\ chosen_date = NaT /\ filtered_df = Idle /\ la_counts = Idle
    /\ total_unique_la_patients = 0

InitGroup ==
    /\ pc = "call"
    /\ patient_df \in {Numbered(v) : v \in SeqsUpTo(Visits, MaxVisits)}
    /\ threshold \in Thresholds
    /\ grouped = Idle /\ reduced = Idle /\ regrouped = Idle
    /\ InitIdleState /\ InitIdlePipeline

\* lines 45-66
GroupPatientRecords ==
    /\ pc = "call"
    /\ \E sorted_df \in sort_values(patient_df) :
           grouped' = group_patient_records(sorted_df, threshold)
    /\ pc' = "grouped"
    /\ UNCHANGED <<patient_df, threshold, reduced, regrouped, svars, pvars>>

\* lines 110-122 on the grouper's result
ReduceGrouped ==
    /\ pc = "grouped"
    /\ reduced' = reduce(with_group_discharge_date(grouped))
    /\ pc' = "reduced"
    /\ UNCHANGED <<patient_df, threshold, grouped, regrouped, svars, pvars>>

\* the grouper on the reduced table: it reads "Admit Date" and
\* "Discharge Date" (lines 46-57) and sets "Group" anew (line 65)
Regroup ==
    /\ pc = "reduced"
    /\ \E sorted_df \in sort_values(reduced) :
           regrouped' = group_patient_records(sorted_df, threshold)
    /\ pc' = "regrouped"
    /\ UNCHANGED <<patient_df, threshold, grouped, reduced, svars, pvars>>

NextGroup == GroupPatientRecords \/ ReduceGrouped \/ Regroup

SpecGroup == InitGroup /\ [][NextGroup]_vars

(***************************************************************************)
(* The run of the script on an uploaded file (lines 74-182).               *)
(***************************************************************************)
MRNs == {1, 2}

PatientTypes == {"Inpatient", "Outpatient", "Telemedicine"}

\* st.date_input gives a date, pd.to_datetime its midnight (lines 126-128)
QueryDates == {Day(window_back), Day(window_back + 1)}

\* line 75: load_data(uploaded_file)
LoadData ==
    /\ pc = "uploaded"
    /\ df' = load_data(uploaded)
    /\ pc' = "loaded"
    /\ UNCHANGED <<uploaded, combined_df, df_result, chosen_date, filtered_df,
                   la_counts, total_unique_la_patients, svars, gvars>>

\* lines 78-113: the telemedicine filter, the corrected states, the three
\* branches and their concatenation, and "Group Discharge Date"
GroupBranches ==
    /\ pc = "loaded"
    /\ df' = apply_correct_patient_state(filter_telemedicine(df))
    /\ \E sorted_df \in sort_values(df') :
           combined_df' =
               with_group_discharge_date(concat_branches(df', sorted_df))
    /\ pc' = "grouped"
    /\ UNCHANGED <<uploaded, df_result, chosen_date, filtered_df, la_counts,
                   total_unique_la_patients, svars, gvars>>

\* lines 115-122
Reduce ==
    /\ pc = "grouped"
    /\ df_result' = reduce(combined_df)
    /\ pc' = "reduced"
    /\ UNCHANGED <<uploaded, df, combined_df, chosen_date, filtered_df,
                   la_counts, total_unique_la_patients, svars, gvars>>

\* lines 126-182: the date chosen, the filtered patients (the sort of line
\* 136 may order rows of equal Admit Date either way) and the two counts
Query ==
    /\ pc = "reduced"
    /\ \E date \in QueryDates :
           /\ chosen_date' = date
           /\ \E sorted_df \in sort_values(active_on(df_result, date)) :
                  filtered_df' = project(drop_duplicates(sorted_df))
           /\ la_counts' =
                  [k \in 1..Len(date_range(date)) |->
                      Cardinality(la_patients(df_result, date_range(date)[k]))]
           /\ total_unique_la_patients' =
                  Cardinality(window_patients(df_result, date))
    /\ pc' = "queried"
    /\ UNCHANGED <<uploaded, df, combined_df, df_result, svars, gvars>>

NextRun == LoadData \/ GroupBranches \/ Reduce \/ Query

InitRun(rows, most) ==
    /\ pc = "uploaded"
    /\ uploaded \in {Numbered(f) : f \in SeqsUpTo(rows, most)}
    /\ df = Idle /\ combined_df = Idle /\ df_result = Idle
    /\ chosen_date = NaT /\ filtered_df = Idle /\ la_counts = Idle
    /\ total_unique_la_patients = 0
    /\ InitIdleState /\ InitIdleGroup

\* Files whose rows differ in patient, branch and dates: visits that
\* merge under the 20-day threshold, a visit too late to merge, a row
\* without an admit date.
BranchIntervals ==
    {<<Day(0), Day(0)>>, <<Day(20), Day(30)>>, <<Day(51), Day(51)>>,
     <<NaT, Day(0)>>}

BranchRows ==
    {Row(m, iv[1], iv[2], ty, "I", st, FALSE) :
        m \in MRNs, iv \in BranchIntervals, ty \in PatientTypes,
        st \in {CA, NV}}

InitBranches == InitRun(BranchRows, MaxRows)

SpecBranches == InitBranches /\ [][NextRun]_vars

\* Files whose rows differ in the dates they lack and in "Patient Class".
LoadRows ==
    {Row(1, a, d, "Inpatient", c, NV, FALSE) :
        a \in {Day(0), Day(20), NaT}, d \in {Day(0), Day(30), NaT},
        c \in {"O", "I", "E"}}

InitLoad == InitRun(LoadRows, MaxRows)

SpecLoad == InitLoad /\ [][NextRun]_vars

\* Files whose rows differ in patient, city and dates around the 30-day
\* window: a visit that ends where the window begins, a visit inside it, a
\* visit discharged before it was admitted, a visit between two midnights.
WindowIntervals ==
    {<<Day(0), Day(0)>>, <<Day(15), Day(20)>>, <<Day(30), Day(15)>>,
     <<Day(15) + 1, Day(15) + 1>>}

WindowRows ==
    {Row(m, iv[1], iv[2], "Inpatient", "I", NV, la) :
        m \in MRNs, iv \in WindowIntervals, la \in BOOLEAN}

InitWindow == InitRun(WindowRows, MaxRows)

SpecWindow == InitWindow /\ [][NextRun]_vars

(***************************************************************************)
(* correct_patient_state on its own.                                       *)
(***************************************************************************)
Pad(n) == [i \in 1..n |-> " "]

StateNames ==
    {Zug, SaoPaulo, Paris, Dededo, Agat, Yigo, Hagatna, LioLio, Saipan,
     CA, NV, GU, International}

InitState ==
    /\ pc = "call"
    /\ state \in {Pad(l) \o name \o Pad(r) :
                     l \in 0..MaxPad, r \in 0..MaxPad, name \in StateNames}
    /\ corrected = Idle
    /\ InitIdleGroup /\ InitIdlePipeline

\* lines 29-43
CorrectPatientState ==
    /\ pc = "call"
    /\ corrected' = correct_patient_state(state)
    /\ pc' = "corrected"
    /\ UNCHANGED <<state, gvars, pvars>>

NextState == CorrectPatientState

SpecState == InitState /\ [][NextState]_vars

(***************************************************************************)
(* Properties of group_patient_records (SpecGroup).                        *)
(***************************************************************************)
GroupIds(rows) == {r.group : r \in Range(rows)}

\* the rows of an episode
Members(rows, g) == {r \in Range(rows) : r.group = g}

\* an episode's span: its earliest admit and its latest discharge
Span(rows, g) ==
    <<SetMin({r.admit : r \in Members(rows, g)}),
      max_skipna({r.discharge : r \in Members(rows, g)})>>

Episodes(rows) == {Span(rows, g) : g \in GroupIds(rows)}

\* the rows that start an episode
Boundaries(rows) ==
    {k \in 2..Len(rows) : rows[k].group # rows[k - 1].group}

\* the latest discharge among the rows before k of the episode of row k - 1
RunningEndBefore(rows, k) ==
    max_skipna({rows[j].discharge : j \in
                   {i \in 1..k - 1 : rows[i].group = rows[k - 1].group}})

\* visit b lies inside visit a
Nested(a, b) ==
    /\ ~isna(a.discharge) /\ ~isna(b.discharge)
    /\ a.admit <= b.admit /\ b.admit <= b.discharge
    /\ b.discharge <= a.discharge

\* C1: the result holds the patient's visits in ascending admit order; the
\* first visit has id 1; a later visit has the id of the visit before it iff
\* its admit <= running_end + threshold, running_end being the latest
\* discharge of the visits already in that episode, and the next id
\* otherwise; so the ids are 1..k and, for threshold >= 0, a visit nested
\* inside another visit of the patient has that visit's id.
C1_PolicyA ==
    pc = "grouped" =>
        LET n == Len(grouped) IN
        /\ n = Len(patient_df)
        /\ {r.vid : r \in Range(grouped)} = 1..n
        /\ \A k \in 1..n :
               [f \in DOMAIN grouped[k] \ {"group"} |-> grouped[k][f]]
                   = patient_df[grouped[k].vid]
        /\ \A k \in 2..n : grouped[k - 1].admit <= grouped[k].admit
        /\ n > 0 => grouped[1].group = 1
        /\ \A k \in 2..n :
               LET running_end == RunningEndBefore(grouped, k)
                   joins ==
                       /\ running_end # NaT
                       /\ grouped[k].admit
                              <= running_end + threshold * TicksPerDay
               IN grouped[k].group =
                      IF joins THEN grouped[k - 1].group
                      ELSE grouped[k - 1].group + 1
        /\ GroupIds(grouped) = 1..Cardinality(GroupIds(grouped))
        /\ threshold >= 0 =>
               \A a, b \in Range(grouped) : Nested(a, b) => a.group = b.group

\* a visit nested in the first one, after a visit that ended before it began
C1_Witness ==
    /\ pc = "grouped" /\ threshold >= 0 /\ Len(grouped) = 3
    /\ Nested(grouped[1], grouped[3])
    /\ ~isna(grouped[2].discharge)
    /\ grouped[3].admit > grouped[2].discharge + threshold * TicksPerDay
    /\ grouped[3].group = grouped[1].group

\* C5: a larger threshold gives the same visits no more episodes: every
\* row that starts an episode under the larger threshold starts one under
\* the smaller.
C5_MonotonicThreshold ==
    pc = "grouped" =>
        \A t2 \in Thresholds :
            threshold <= t2 =>
                LET again == group_patient_records(grouped, t2) IN
                /\ Cardinality(GroupIds(again)) <= Cardinality(GroupIds(grouped))
                /\ Boundaries(again) \subseteq Boundaries(grouped)

\* a larger threshold that gives strictly fewer episodes
C5_Witness ==
    /\ pc = "grouped"
    /\ \E t2 \in Thresholds :
           /\ threshold < t2
           /\ Cardinality(GroupIds(group_patient_records(grouped, t2)))
                  < Cardinality(GroupIds(grouped))

\* every visit is an episode of its own
AllSingletons(rows) == Cardinality(GroupIds(rows)) = Len(rows)

\* C6 as stated: with a threshold <= 0 a patient with n visits gets n
\* distinct episode ids.
C6_Original ==
    (pc = "grouped" /\ threshold <= 0) => AllSingletons(grouped)

\* C6 as amended: with a threshold <= 0 every visit gets an id, and the n
\* visits get n distinct ids exactly when each visit after the first (in
\* the sorted order) is admitted later than the discharge of the visit
\* before it plus the threshold, or that discharge is missing.
C6_Amended ==
    (pc = "grouped" /\ threshold <= 0) =>
        /\ Len(grouped) = Len(patient_df)
        /\ \A k \in 1..Len(grouped) : grouped[k].group \in 1..Len(grouped)
        /\ AllSingletons(grouped) <=>
               \A k \in 2..Len(grouped) :
                   \/ isna(grouped[k - 1].discharge)
                   \/ grouped[k].admit >
                          grouped[k - 1].discharge + threshold * TicksPerDay

\* three visits, two of them admitted on the same day, three episodes
C6_Witness ==
    /\ pc = "grouped" /\ threshold <= 0 /\ Len(grouped) = 3
    /\ AllSingletons(grouped)
    /\ grouped[1].admit = grouped[2].admit
    /\ ~isna(grouped[1].discharge)

\* C9: grouping the reduced records again with the same threshold gives the
\* same episodes: as many, with the same (episode_start, episode_end).
\* Stated for the runs in which the second sort left the reduced table in
\* its order (a stable sort; the reduced table is in admit order already).
C9_Idempotent ==
    (/\ pc = "regrouped"
     /\ \A k \in 1..Len(regrouped) : regrouped[k].vid = reduced[k].vid)
        => Episodes(regrouped) = Episodes(grouped)

(***************************************************************************)
(* Properties of the run (SpecBranches, SpecLoad, SpecWindow).             *)
(***************************************************************************)
\* the episodes the grouping step made for patient m: a branch and an id
EpisodesOf(m) ==
    {<<r.gtype, r.group>> : r \in {q \in Range(combined_df) : q.mrn = m}}

\* the visits the grouping step put in episode e of patient m
EpisodeVisits(m, e) ==
    {r \in Range(combined_df) :
        r.mrn = m /\ r.gtype = e[1] /\ r.group = e[2]}

\* min(admit of members) <= date <= max(discharge of members)
EpisodeActiveOn(m, e, date) ==
    /\ Le(SetMin({r.admit : r \in EpisodeVisits(m, e)}), date)
    /\ Le(date, max_skipna({r.discharge : r \in EpisodeVisits(m, e)}))

\* C2: a patient is in the filtered result iff one of the patient's
\* episodes has min admit <= chosen_date <= max discharge, and then has
\* exactly one row there.
C2_Occupancy ==
    pc = "queried" =>
        \A m \in MRNs :
            Cardinality({i \in 1..Len(filtered_df) : filtered_df[i].mrn = m})
                = IF \E e \in EpisodesOf(m) : EpisodeActiveOn(m, e, chosen_date)
                  THEN 1 ELSE 0

\* C3: every CA visit that is not Inpatient has a row of its own in
\* df_result, shares its (patient, Group) with no other visit, and its
\* row's Group Discharge Date is its own discharge date.
C3_Singleton ==
    pc = "reduced" =>
        \A v \in Range(df) :
            (v.pstate = CA /\ v.ptype # "Inpatient") =>
                /\ Cardinality({i \in 1..Len(df_result) :
                                   df_result[i].vid = v.vid}) = 1
                /\ \A r \in Range(df_result) :
                       r.vid = v.vid =>
                           r.admit = v.admit /\ r.gdd = v.discharge
                /\ \A c, w \in Range(combined_df) :
                       (c.vid = v.vid /\ w.mrn = c.mrn /\ w.group = c.group)
                           => w.vid = v.vid

\* the branch a visit belongs to
BranchOf(v) ==
    IF strip(v.pstate) = CA
    THEN IF v.ptype = "Inpatient" THEN "CA Grouped (Inpatient)"
         ELSE "CA Single Record (Non-Inpatient)"
    ELSE "Non-CA Grouped"

\* C4: every uploaded visit with an admit date and a Patient Type other
\* than Telemedicine is in combined_df exactly once, in its branch and with
\* a Group id; every other uploaded visit is not in combined_df.
C4_Coverage ==
    pc \in {"grouped", "reduced", "queried"} =>
        /\ \A i \in 1..Len(uploaded) :
               LET rows == {j \in 1..Len(combined_df) : combined_df[j].vid = i}
               IN IF ~isna(uploaded[i].admit)
                     /\ uploaded[i].ptype # "Telemedicine"
                  THEN /\ Cardinality(rows) = 1
                       /\ \A j \in rows :
                              /\ combined_df[j].group # None
                              /\ combined_df[j].group >= 1
                              /\ combined_df[j].gtype = BranchOf(uploaded[i])
                              /\ combined_df[j].admit = uploaded[i].admit
                              /\ combined_df[j].mrn = uploaded[i].mrn
                  ELSE rows = {}
        /\ \A j \in 1..Len(combined_df) : combined_df[j].vid \in 1..Len(uploaded)

\* a file of a Telemedicine visit and a visit of another type
C4_Witness ==
    /\ pc = "grouped" /\ Len(uploaded) = 2 /\ Len(combined_df) = 1
    /\ \E i \in 1..2 : uploaded[i].ptype = "Telemedicine"
    /\ combined_df[1].gtype = "CA Single Record (Non-Inpatient)"

\* C8: after load_data every visit has both dates: a missing discharge is
\* the admit date for class O and 2050-01-01 for class I, and no visit
\* reaches the grouping without a discharge date.
C8_DatesPopulated ==
    /\ pc = "loaded" =>
           \A r \in Range(df) :
               /\ ~isna(r.admit) /\ ~isna(r.discharge)
               /\ (isna(uploaded[r.vid].discharge) /\ r.pclass = "O")
                      => r.discharge = r.admit
               /\ (isna(uploaded[r.vid].discharge) /\ r.pclass = "I")
                      => r.discharge = Sentinel2050
    /\ pc = "grouped" =>
           \A r \in Range(combined_df) : ~isna(r.discharge)

\* the la patients with a row active on the k-th of the 30 days
\* chosen_date - 29 .. chosen_date
CountedOn(k) ==
    {r.mrn : r \in {q \in Range(df_result) :
        /\ q.la /\ ~isna(q.gdd)
        /\ q.admit <= chosen_date - (30 - k) * TicksPerDay
        /\ chosen_date - (30 - k) * TicksPerDay <= q.gdd}}

CountedOnSomeDay == UNION {CountedOn(k) : k \in 1..30}

WholeDays ==
    \A r \in Range(df_result) :
        /\ r.admit % TicksPerDay = 0
        /\ ~isna(r.gdd) => r.gdd % TicksPerDay = 0

\* C10: the daily counts are those of the 30 days chosen_date - 29 ..
\* chosen_date; every patient counted on one of the days is counted in the
\* window count, which is at least every daily count; and when all dates
\* are whole days, the window count is the number of patients counted on
\* some day if every row has Admit Date <= Group Discharge Date, so that it
\* differs only when some row has Admit Date > Group Discharge Date.
C10_WindowCounts ==
    pc = "queried" =>
        /\ Len(la_counts) = 30
        /\ \A k \in 1..Len(la_counts) :
               /\ la_counts[k] = Cardinality(CountedOn(k))
               /\ la_counts[k] <= total_unique_la_patients
        /\ CountedOnSomeDay \subseteq window_patients(df_result, chosen_date)
        /\ Cardinality(CountedOnSomeDay) <= total_unique_la_patients
        /\ (WholeDays /\ \A r \in Range(df_result) : Le(r.admit, r.gdd))
               => total_unique_la_patients = Cardinality(CountedOnSomeDay)
        /\ (WholeDays
                /\ total_unique_la_patients # Cardinality(CountedOnSomeDay))
               => \E r \in Range(df_result) : Gt(r.admit, r.gdd)

\* whole days, no row discharged before its admission, and a patient in the
\* window who is not counted on the chosen date
C10_Witness ==
    /\ pc = "queried" /\ WholeDays
    /\ \A r \in Range(df_result) : Le(r.admit, r.gdd)
    /\ total_unique_la_patients = 2
    /\ la_counts[Len(la_counts)] = 0
    /\ la_counts[1] = 1

(***************************************************************************)
(* Properties of correct_patient_state (SpecState).                        *)
(***************************************************************************)
\* C7: a mis-entered name of the table gives the table's corrected code, a
\* CA value not in the table gives "CA", any other value is unchanged.
C7_LookupTable ==
    pc = "corrected" =>
        IF strip(state) \in DOMAIN known_invalids_for_CA
        THEN corrected = known_invalids_for_CA[strip(state)]
        ELSE IF strip(state) = CA THEN corrected = CA
        ELSE corrected = state

====
